---- MODULE Spec2Model ----
(***************************************************************************)
(* The conversation scheduler of ai-agent-chat: the useConversation hook   *)
(* (src/src/hooks/useConversation.js) together with the two aiService      *)
(* calls it awaits (src/src/services/aiService.js).                        *)
(*                                                                         *)
(* Every hook function is one action.  generateNextResponse is an async    *)
(* function: it runs up to its first await (the selector call), resumes    *)
(* when the selector settles, runs up to its second await (the generator   *)
(* call) and resumes when the generator settles.  Each of the three        *)
(* synchronous segments is one action; other callbacks interleave between  *)
(* them, as on the JavaScript event loop.                                  *)
(*                                                                         *)
(* React state (status, messages, config, isProcessing) and the refs that  *)
(* shadow it are separate variables.  A setState call and a functional     *)
(* updater are applied when they are issued.                               *)
(*                                                                         *)
(* Strings of the source that are not ASCII are written in ASCII:          *)
(*   "/jungdan" is the pause command, "/jaegae" the resume command.        *)
(* Message.timestamp (new Date()) is never read by the hook and is left    *)
(* out of the record.                                                      *)
(*                                                                         *)
(* A turn's generator call is modelled by how it ends (reply or failure).  *)
(* The model fallback inside generateGeminiResponse is modelled on its     *)
(* own, as a function of the call's inputs (SpecGemini).                   *)
(***************************************************************************)
EXTENDS Integers, Sequences, FiniteSets, TLC

(* ------------------------------ bounds --------------------------------- *)

\* Longest transcript explored: an append is not taken beyond it.
MaxMessages == 4
\* Largest per-agent budget (maxConversationCount) a config carries.
MaxBudget == 1
\* Number of generateNextResponse executions that may be suspended at once.
MaxExec == 2
\* Number of interval timers the browser can hold at once.
MaxTimers == 2

(* ------------------------- types/index.js ------------------------------ *)

GPT == "gpt"
GEMINI == "gemini"
\* A provider kind outside AgentType.
UNSUPPORTED == "other"

AGENT == "agent"
USER == "user"
SYSTEM == "system"

SETUP == "setup"
RUNNING == "running"
PAUSED == "paused"
STOPPED == "stopped"

\* JavaScript null for a string-valued field.
NullName == "null"

AgentConfig(name, type) == [name |-> name, type |-> type]

\* new Message(type, content, agentName = null); content is <<kind, detail>>.
Message(type, content, agentName) ==
    [type |-> type, content |-> content, agentName |-> agentName]

\* An optional value is a sequence of length 0 (null) or 1.
Some(v) == <<v>>
None == <<>>

\* systemPrompt defaults to null.
ConversationConfig(topic, agents, openaiApiKey, maxConversationCount) ==
    [topic |-> topic, agents |-> agents, openaiApiKey |-> openaiApiKey,
     systemPrompt |-> None, maxConversationCount |-> maxConversationCount]

\* A config whose shared instruction text is set.
WithSystemPrompt(cfg, text) == [cfg EXCEPT !.systemPrompt = Some(text)]

(* ------------------------------ inputs --------------------------------- *)

\* The two rosters explored: one of supported kinds, one with an agent of a
\* kind generateAgentResponse does not know.
RosterAB == <<AgentConfig("A", GPT), AgentConfig("B", GEMINI)>>
RosterAC == <<AgentConfig("A", GPT), AgentConfig("C", UNSUPPORTED)>>

Topic == "T"

\* "" is a missing key (falsy), "sk" a key initializeOpenAI accepts, "bad" a
\* key that is given but fails its format checks.
NoKey == ""
GoodKey == "sk"
BadKey == "bad"

SharedText == "P"

\* The configs handed to initializeConversation: without a budget (and with
\* shared instruction text), with a zero budget (on the roster with the
\* unsupported agent, and without a key), and with every budget 1 .. MaxBudget.
Configs ==
    {WithSystemPrompt(ConversationConfig(Topic, RosterAB, GoodKey, None), SharedText),
     ConversationConfig(Topic, RosterAC, NoKey, Some(0))}
    \cup {ConversationConfig(Topic, RosterAB, GoodKey, Some(n)) : n \in 1..MaxBudget}

UserTexts == {"hello"}

CmdPause == "/jungdan"
CmdResume == "/jaegae"
Commands == {CmdPause, CmdResume, "/unknown"}

ExecIds == 1..MaxExec
TimerIds == 1..MaxTimers

(* ------------------------------ state ---------------------------------- *)

VARIABLES
    status,            \* useState: ConversationStatus
    messages,          \* useState: the transcript
    config,            \* useState: None or Some(config)
    isProcessing,      \* useState: turn in flight, as presented
    statusRef,         \* useRef shadows, read by callbacks
    messagesRef,
    configRef,
    isProcessingRef,
    agentCountsRef,    \* name -> remaining turns; the empty function is {}
    initialCountsRef,
    intervalRef,       \* 0 (null) or the id of the interval the hook holds
    timers,            \* ids of the intervals live in the browser
    openai,            \* aiService.openai is a client (TRUE) or null
    execs,             \* the suspended generateNextResponse executions
    lastOp,            \* the operation that took the last step
    sinceHalt,         \* records appended by timer- or start-triggered
                       \* executions since the last pause or automatic pause
    fromStatus,        \* statusRef as the last step found it
    lastReply,         \* what the selector call of the last step settled with
    geminiCall         \* the last generateGeminiResponse call and how it ended

vars == <<status, messages, config, isProcessing, statusRef, messagesRef,
          configRef, isProcessingRef, agentCountsRef, initialCountsRef,
          intervalRef, timers, openai, execs, lastOp, sinceHalt, fromStatus,
          lastReply, geminiCall>>

\* Everything the hook and the service own: vars without the two histories.
progVars == <<status, messages, config, isProcessing, statusRef, messagesRef,
              configRef, isProcessingRef, agentCountsRef, initialCountsRef,
              intervalRef, timers, openai, execs>>

IdleExec ==
    [pc |-> "idle", origin |-> "none", agents |-> <<>>, clientMissing |-> FALSE,
     nextAgent |-> None, maxCount |-> None]

NoHalt == [kind |-> "none", n |-> 0]

\* The last step settled no selector call.
NoReply == <<>>

Init ==
    /\ status = SETUP
    /\ messages = <<>>
    /\ config = None
    /\ isProcessing = FALSE
    /\ statusRef = SETUP
    /\ messagesRef = <<>>
    /\ configRef = None
    /\ isProcessingRef = FALSE
    /\ agentCountsRef = <<>>
    /\ initialCountsRef = <<>>
    /\ intervalRef = 0
    /\ timers = {}
    /\ openai = FALSE
    /\ execs = [e \in ExecIds |-> IdleExec]
    /\ lastOp = "construct"
    /\ sinceHalt = NoHalt
    /\ fromStatus = SETUP
    /\ lastReply = NoReply
    /\ geminiCall = None

(* ------------------------------ helpers -------------------------------- *)

\* JavaScript truthiness of maxConversationCount: null and 0 are falsy.
Truthy(m) == m # None /\ m[1] # 0

\* `maxCount && maxCount > 0`
BudgetOn(m) == Truthy(m) /\ m[1] > 0

AgentNames(agents) == {agents[i].name : i \in 1..Len(agents)}

\* counts[name] = maxCount for every agent of the roster (the forEach loops).
FullCounts(agents, maxCount) == [n \in AgentNames(agents) |-> maxCount]

\* agentCountsRef.current[name] || 0
CountOr0(counts, name) == IF name \in DOMAIN counts THEN counts[name] ELSE 0

\* Mutant: one exhausted agent is taken for all of them.
AllExhaustedAny(counts) == \E n \in DOMAIN counts : counts[n] <= 0

\* Object.values(counts).every(count => count <= 0)
AllExhausted(counts) == \A n \in DOMAIN counts : counts[n] <= 0

TopicMessage(cfg) == Message(SYSTEM, <<"topic", cfg.topic>>, NullName)
AutoPauseMessage == Message(SYSTEM, <<"autoPause", "">>, NullName)
ResumeMessage == Message(SYSTEM, <<"resumed", "">>, NullName)
ErrorMessage(reason) == Message(SYSTEM, <<"error", reason>>, NullName)
AgentMessage(agent) == Message(AGENT, <<"reply", agent.name>>, agent.name)
UserMessage(content) == Message(USER, <<"user", content>>, NullName)

\* Mutant: the updater puts the new record first.
AppendedAtFront(prev, m) == <<m>> \o prev

\* Mutant: the updater drops the record unless the conversation is running.
AppendedWhileRunning(prev, m) == IF statusRef = RUNNING THEN Append(prev, m) ELSE prev

\* The functional updater prev => [...prev, m].
Appended(prev, m) == Append(prev, m)

\* Room for one more record within the explored transcript length.
Room == Len(messagesRef) < MaxMessages /\ Len(messages) < MaxMessages

(* ---------------------- the autonomous timer --------------------------- *)

\* The interval the hook's ref names, when it names one.
Held(ref, live) == IF ref # 0 THEN live \cap {ref} ELSE {}

\* setInterval returns an id no live interval has.
FreshTimer(live) == CHOOSE t \in TimerIds \ live : \A u \in TimerIds \ live : t <= u

\* Mutant: startAutoConversation holds a new interval without clearing the old.
TimersAfterStartKept(ref, live) ==
    IF TimerIds \ live = {} THEN live ELSE live \cup {FreshTimer(live)}

\* startAutoConversation: clear the held interval, then hold a new one.
TimersAfterStart(ref, live) ==
    (live \ Held(ref, live)) \cup {FreshTimer(live \ Held(ref, live))}

RefAfterStart(ref, live) == FreshTimer(live \ Held(ref, live))

CanStartTimer(ref, live) == TimerIds \ (live \ Held(ref, live)) # {}

\* Mutant: stopAutoConversation forgets the interval without clearing it.
TimersAfterStopLeft(ref, live) == live

\* stopAutoConversation: clear the held interval and forget it.
TimersAfterStop(ref, live) == live \ Held(ref, live)

RefAfterStop(ref, live) == 0

StartAutoConversation ==
    /\ CanStartTimer(intervalRef, timers)
    /\ timers' = TimersAfterStart(intervalRef, timers)
    /\ intervalRef' = RefAfterStart(intervalRef, timers)

StopAutoConversation ==
    /\ timers' = TimersAfterStop(intervalRef, timers)
    /\ intervalRef' = RefAfterStop(intervalRef, timers)

(* ------------------------ history bookkeeping -------------------------- *)

\* An execution started by the timer or by startConversation.
Scheduled(origin) == origin \in {"timer", "start"}

\* One more record appended by an execution of that origin.
Counted(h, origin) ==
    IF h.kind # "none" /\ Scheduled(origin) /\ h.n < 2
    THEN [h EXCEPT !.n = h.n + 1] ELSE h

\* pause() takes effect as a pause when the conversation was running.
HaltedByPause(h, st) == IF st = RUNNING THEN [kind |-> "pause", n |-> 0] ELSE h

\* The automatic pause, from Running; from another status it is one more record.
HaltedByAuto(h, st, origin) ==
    IF st = RUNNING THEN [kind |-> "auto", n |-> 0] ELSE Counted(h, origin)

\* What the two step histories record of a step.
Noted(reply) == fromStatus' = statusRef /\ lastReply' = reply

(* -------------------- initializeConversation --------------------------- *)

\* aiService.setApiKeys: a truthy key installs the client.
ClientAfterKeys(client, key) == client \/ key # ""

CountsAtInit(cfg) ==
    IF BudgetOn(cfg.maxConversationCount)
    THEN FullCounts(cfg.agents, cfg.maxConversationCount[1])
    ELSE <<>>

\* Mutant: initialize keeps the records the transcript held.
TranscriptAtInitKept(cfg) == Append(messages, TopicMessage(cfg))

TranscriptAtInit(cfg) == <<TopicMessage(cfg)>>

\* initializeOpenAI's checks of a key that is given: the prefix sk- (or
\* sk-proj-) and a length of at least 50.
KeyAccepted(key) == key = GoodKey

\* setApiKeys throws: it hands a truthy key to initializeOpenAI, which rejects it.
KeysRejected(cfg) == cfg.openaiApiKey # NoKey /\ ~KeyAccepted(cfg.openaiApiKey)

\* The transcript when setApiKeys throws: setMessages([]) has run, the topic
\* record has not been written.
TranscriptAtThrow == <<>>

\* The setup screen, which calls it, is shown before the first conversation
\* and after a stop.  The state and ref writes come first, then setApiKeys;
\* when that throws, the counts and the topic record are never reached.
Initialize(cfg) ==
    /\ statusRef \in {SETUP, STOPPED}
    /\ config' = Some(cfg)
    /\ configRef' = Some(cfg)
    /\ status' = RUNNING
    /\ statusRef' = RUNNING
    /\ IF KeysRejected(cfg)
       THEN /\ messages' = TranscriptAtThrow
            /\ messagesRef' = TranscriptAtThrow
            /\ lastOp' = "initialize.failed"
            /\ UNCHANGED <<openai, agentCountsRef, initialCountsRef>>
       ELSE /\ openai' = ClientAfterKeys(openai, cfg.openaiApiKey)
            /\ agentCountsRef' = CountsAtInit(cfg)
            /\ initialCountsRef' = CountsAtInit(cfg)
            /\ messages' = TranscriptAtInit(cfg)
            /\ messagesRef' = TranscriptAtInit(cfg)
            /\ lastOp' = "initialize"
    /\ Noted(NoReply)
    /\ UNCHANGED geminiCall
    /\ sinceHalt' = NoHalt
    /\ UNCHANGED <<isProcessing, isProcessingRef, intervalRef, timers, execs>>

(* ------------- pause / resume / stop / user input / cleanup ------------ *)

StatusAfterPause(st) == PAUSED
StatusAfterResume(st) == RUNNING
StatusAfterStop(st) == STOPPED

PauseConversation ==
    /\ status' = StatusAfterPause(statusRef)
    /\ statusRef' = StatusAfterPause(statusRef)
    /\ StopAutoConversation
    /\ sinceHalt' = HaltedByPause(sinceHalt, statusRef)
    /\ UNCHANGED <<messages, messagesRef, config, configRef, isProcessing,
                   isProcessingRef, agentCountsRef, initialCountsRef, openai, execs>>

\* Mutant: resume resets whenever a budget field is set, zero included.
ResumeResetsAnyBudget == configRef # None /\ configRef[1].maxConversationCount # None

\* `configRef.current && configRef.current.maxConversationCount`
ResumeResets == configRef # None /\ Truthy(configRef[1].maxConversationCount)

\* Mutant: resume adds the maximum to what is left instead of setting it.
CountsAfterResumeAdded ==
    IF ResumeResets
    THEN [n \in AgentNames(configRef[1].agents) |->
            CountOr0(agentCountsRef, n) + configRef[1].maxConversationCount[1]]
    ELSE agentCountsRef

CountsAfterResume ==
    IF ResumeResets
    THEN FullCounts(configRef[1].agents, configRef[1].maxConversationCount[1])
    ELSE agentCountsRef

ResumeConversation ==
    /\ IF ResumeResets
       THEN /\ Room
            /\ messages' = Appended(messages, ResumeMessage)
            /\ messagesRef' = Appended(messages, ResumeMessage)
       ELSE UNCHANGED <<messages, messagesRef>>
    /\ agentCountsRef' = CountsAfterResume
    /\ status' = StatusAfterResume(statusRef)
    /\ statusRef' = StatusAfterResume(statusRef)
    /\ StartAutoConversation
    /\ sinceHalt' = NoHalt
    /\ UNCHANGED <<config, configRef, isProcessing, isProcessingRef,
                   initialCountsRef, openai, execs>>

StopConversation ==
    /\ status' = StatusAfterStop(statusRef)
    /\ statusRef' = StatusAfterStop(statusRef)
    /\ StopAutoConversation
    /\ UNCHANGED <<messages, messagesRef, config, configRef, isProcessing,
                   isProcessingRef, agentCountsRef, initialCountsRef, openai, execs,
                   sinceHalt>>

Pause ==
    /\ PauseConversation
    /\ lastOp' = "pause"
    /\ Noted(NoReply)
    /\ UNCHANGED geminiCall
Resume ==
    /\ ResumeConversation
    /\ lastOp' = "resume"
    /\ Noted(NoReply)
    /\ UNCHANGED geminiCall
Stop ==
    /\ StopConversation
    /\ lastOp' = "stop"
    /\ Noted(NoReply)
    /\ UNCHANGED geminiCall

AddUserMessage(content) ==
    /\ Room
    /\ messages' = Appended(messages, UserMessage(content))
    /\ messagesRef' = Appended(messages, UserMessage(content))
    /\ lastOp' = "addUserMessage"
    /\ Noted(NoReply)
    /\ UNCHANGED geminiCall
    /\ UNCHANGED <<status, statusRef, config, configRef, isProcessing, isProcessingRef,
                   agentCountsRef, initialCountsRef, intervalRef, timers, openai, execs,
                   sinceHalt>>

\* Mutant: handleCommand reports no command as handled.
HandledNone(command) == FALSE

\* Mutant: handleCommand reports every command as handled.
HandledAll(command) == TRUE

\* handleCommand returns true for the two commands and false otherwise.
Handled(command) == command \in {CmdPause, CmdResume}

HandleCommand(command) ==
    /\ IF command = CmdPause THEN PauseConversation
       ELSE IF command = CmdResume THEN ResumeConversation
       ELSE UNCHANGED <<progVars, sinceHalt>>
    /\ lastOp' = IF command = CmdPause THEN "handleCommand.pause"
                 ELSE IF command = CmdResume THEN "handleCommand.resume"
                 ELSE "handleCommand.unhandled"
    /\ Noted(NoReply)
    /\ UNCHANGED geminiCall

(* ---------------------- ChatScreen.handleSubmit ------------------------ *)

\* The trimmed, non-empty texts the input box submits.
Submitted == Commands \cup UserTexts

\* message.startsWith('/'): of the texts explored, the three in Commands.
StartsWithSlash(message) == message \in Commands

\* The transcript once onCommand(message) has run.
TranscriptAfterCommand(message) ==
    IF StartsWithSlash(message) /\ message = CmdResume /\ ResumeResets
    THEN Appended(messages, ResumeMessage)
    ELSE messages

\* The transcript once handleSubmit has run: onUserMessage(message) is reached
\* unless the text is a command that was reported as handled.
TranscriptAfterSubmit(message) ==
    IF StartsWithSlash(message) /\ Handled(message)
    THEN TranscriptAfterCommand(message)
    ELSE Appended(TranscriptAfterCommand(message), UserMessage(message))

\* The form of the chat screen: the screen is shown once a conversation is
\* installed, and the input and its button are disabled while status is Stopped.
HandleSubmit(message) ==
    /\ config # None
    /\ status # STOPPED
    /\ Len(TranscriptAfterSubmit(message)) <= MaxMessages
    /\ messages' = TranscriptAfterSubmit(message)
    /\ messagesRef' = TranscriptAfterSubmit(message)
    /\ IF StartsWithSlash(message) /\ message = CmdPause
       THEN /\ status' = StatusAfterPause(statusRef)
            /\ statusRef' = StatusAfterPause(statusRef)
            /\ StopAutoConversation
            /\ sinceHalt' = HaltedByPause(sinceHalt, statusRef)
            /\ UNCHANGED agentCountsRef
       ELSE IF StartsWithSlash(message) /\ message = CmdResume
       THEN /\ agentCountsRef' = CountsAfterResume
            /\ status' = StatusAfterResume(statusRef)
            /\ statusRef' = StatusAfterResume(statusRef)
            /\ StartAutoConversation
            /\ sinceHalt' = NoHalt
       ELSE UNCHANGED <<status, statusRef, intervalRef, timers, sinceHalt,
                        agentCountsRef>>
    /\ lastOp' = IF ~StartsWithSlash(message) THEN "submit.text"
                 ELSE IF message = CmdPause THEN "submit.pause"
                 ELSE IF message = CmdResume THEN "submit.resume"
                 ELSE "submit.unknown"
    /\ Noted(NoReply)
    /\ UNCHANGED geminiCall
    /\ UNCHANGED <<config, configRef, isProcessing, isProcessingRef,
                   initialCountsRef, openai, execs>>

Cleanup ==
    /\ StopAutoConversation
    /\ lastOp' = "cleanup"
    /\ Noted(NoReply)
    /\ UNCHANGED geminiCall
    /\ UNCHANGED <<status, statusRef, messages, messagesRef, config, configRef,
                   isProcessing, isProcessingRef, agentCountsRef, initialCountsRef,
                   openai, execs, sinceHalt>>

(* ----------------------- generateNextResponse -------------------------- *)

\* Everything generateNextResponse can write (all but the timer and histories).
tickVars == <<status, messages, config, isProcessing, statusRef, messagesRef,
              configRef, isProcessingRef, agentCountsRef, initialCountsRef,
              openai, execs>>

InFlight == {e \in ExecIds : execs[e].pc # "idle"}

\* Mutant: the guard does not test the in-flight flag.
TickRejectedNoFlag == configRef = None

\* The guard: `!configRef.current || isProcessingRef.current`.
TickRejected == configRef = None \/ isProcessingRef

\* Mutant: the interval callback tests for the wrong status.
TimerMayTickPaused == statusRef = PAUSED /\ ~isProcessingRef

\* The interval callback's test before it calls generateNextResponse.
TimerMayTick == statusRef = RUNNING /\ ~isProcessingRef

\* Mutant: startConversation does not test the status.
StartMayTickNoStatus == configRef # None

\* startConversation's test.
StartMayTick == configRef # None /\ statusRef = RUNNING

FreeExec == CHOOSE e \in ExecIds \ InFlight : \A f \in ExecIds \ InFlight : e <= f

\* The arguments of the selector call: what the three refs hold at that moment.
SelectorCall ==
    [history |-> messagesRef, agents |-> configRef[1].agents,
     topic |-> configRef[1].topic]

\* From the guard to the first await: the flag is set and the selector is
\* called with the roster of the config installed now.  selectNextSpeaker
\* throws at once when the service holds no OpenAI client.
BeginTick(origin) ==
    /\ ExecIds \ InFlight # {}
    /\ isProcessing' = TRUE
    /\ isProcessingRef' = TRUE
    /\ execs' = [execs EXCEPT ![FreeExec] =
                    [pc |-> "selecting", origin |-> origin,
                     agents |-> SelectorCall.agents, clientMissing |-> ~openai,
                     nextAgent |-> None, maxCount |-> None]]
    /\ UNCHANGED <<status, statusRef, messages, messagesRef, config, configRef,
                   agentCountsRef, initialCountsRef, openai>>

GenerateNextResponse(origin) ==
    IF TickRejected THEN UNCHANGED tickVars ELSE BeginTick(origin)

\* A direct call of the function the hook returns.
DirectGenerate ==
    /\ GenerateNextResponse("direct")
    /\ lastOp' = IF TickRejected THEN "generate.rejected" ELSE "generate.started"
    /\ Noted(NoReply)
    /\ UNCHANGED geminiCall
    /\ UNCHANGED <<intervalRef, timers, sinceHalt>>

\* One firing of a live interval.
TimerFire ==
    /\ timers # {}
    /\ IF TimerMayTick THEN GenerateNextResponse("timer") ELSE UNCHANGED tickVars
    /\ lastOp' = IF ~TimerMayTick THEN "timer.skipped"
                 ELSE IF TickRejected THEN "timer.rejected" ELSE "timer.started"
    /\ Noted(NoReply)
    /\ UNCHANGED geminiCall
    /\ UNCHANGED <<intervalRef, timers, sinceHalt>>

StartConversation ==
    /\ IF StartMayTick
       THEN GenerateNextResponse("start") /\ StartAutoConversation
       ELSE UNCHANGED <<tickVars, intervalRef, timers>>
    /\ lastOp' = IF ~StartMayTick THEN "start.skipped"
                 ELSE IF TickRejected THEN "start.rejected" ELSE "start.started"
    /\ Noted(NoReply)
    /\ UNCHANGED geminiCall
    /\ UNCHANGED sinceHalt

\* How the moderator call inside selectNextSpeaker can settle: it throws
\* (failed), or it replies with a text in which the pattern finds no name
\* (name = None) or finds the name Some(n), trimmed.
SelectorOutcome(failed, name) == [failed |-> failed, name |-> name]

ReplyNames == {"A", "B", "C"}

SelectorOutcomes ==
    {SelectorOutcome(TRUE, None), SelectorOutcome(FALSE, None)}
    \cup {SelectorOutcome(FALSE, Some(n)) : n \in ReplyNames}

\* agents.find(agent => agent.name === name): the first such agent, if any.
FoundAt(agents, name) == {i \in 1..Len(agents) : agents[i].name = name}

FindAgent(agents, name) ==
    IF FoundAt(agents, name) = {} THEN None
    ELSE Some(agents[CHOOSE i \in FoundAt(agents, name) :
                        \A j \in FoundAt(agents, name) : i <= j])

\* agents[0], undefined for an empty roster.
FirstAgent(agents) == IF agents = <<>> THEN None ELSE Some(agents[1])

\* Mutant: an unresolved reply falls back to the last agent of the roster.
SelectNextSpeakerLast(agents, outcome) ==
    IF ~outcome.failed /\ outcome.name # None
          /\ FindAgent(agents, outcome.name[1]) # None
    THEN FindAgent(agents, outcome.name[1])
    ELSE IF agents = <<>> THEN None ELSE Some(agents[Len(agents)])

\* selectNextSpeaker once the client exists: the agent the reply names when the
\* roster has it, agents[0] otherwise and when the call throws.
SelectNextSpeaker(agents, outcome) ==
    IF ~outcome.failed /\ outcome.name # None
          /\ FindAgent(agents, outcome.name[1]) # None
    THEN FindAgent(agents, outcome.name[1])
    ELSE FirstAgent(agents)

\* What selectNextSpeaker can return.
SelectorResults(agents) ==
    {SelectNextSpeaker(agents, outcome) : outcome \in SelectorOutcomes}

\* Mutant: a return path ends the execution without clearing the flag.
FinishFlagLeft(e) ==
    /\ isProcessing' = isProcessing
    /\ isProcessingRef' = isProcessingRef
    /\ execs' = [execs EXCEPT ![e] = IdleExec]

\* Mutant: the flag is cleared in the ref only, the state keeps it.
FinishRefOnly(e) ==
    /\ isProcessing' = isProcessing
    /\ isProcessingRef' = FALSE
    /\ execs' = [execs EXCEPT ![e] = IdleExec]

\* The finally block (and the early returns): the flag is cleared.
Finish(e) ==
    /\ isProcessing' = FALSE
    /\ isProcessingRef' = FALSE
    /\ execs' = [execs EXCEPT ![e] = IdleExec]

\* The selector call rejects: catch appends the error record, finally clears.
SelectFails(e) ==
    /\ execs[e].pc = "selecting"
    /\ execs[e].clientMissing
    /\ Room
    /\ messages' = Appended(messages, ErrorMessage("openai"))
    /\ messagesRef' = Appended(messages, ErrorMessage("openai"))
    /\ Finish(e)
    /\ lastOp' = "tick.selectError"
    /\ Noted(NoReply)
    /\ UNCHANGED geminiCall
    /\ sinceHalt' = Counted(sinceHalt, execs[e].origin)
    /\ UNCHANGED <<status, statusRef, config, configRef, agentCountsRef,
                   initialCountsRef, intervalRef, timers, openai>>

\* The budget test of the chosen agent, on the config installed now.
Exhausted(agent) ==
    /\ BudgetOn(configRef[1].maxConversationCount)
    /\ CountOr0(agentCountsRef, agent.name) <= 0

\* Mutant: the automatic pause leaves the status as it is.
StatusKeptAtAutoPause(st) == st

StatusAfterAutoPause(st) == PAUSED

\* The selector returns an agent; the execution runs on to its next await
\* or to one of its early returns.
SelectReturns(e) ==
    /\ execs[e].pc = "selecting"
    /\ ~execs[e].clientMissing
    /\ UNCHANGED geminiCall
    /\ \E outcome \in SelectorOutcomes :
        LET r == SelectNextSpeaker(execs[e].agents, outcome) IN
        IF r = None
        THEN /\ Finish(e)
             /\ lastOp' = "tick.noAgent"
             /\ Noted(Some(outcome))
             /\ UNCHANGED <<status, statusRef, messages, messagesRef, config, configRef,
                            agentCountsRef, initialCountsRef, intervalRef, timers,
                            openai, sinceHalt>>
        ELSE IF Exhausted(r[1]) /\ AllExhausted(agentCountsRef)
        THEN /\ Room
             /\ status' = StatusAfterAutoPause(statusRef)
             /\ statusRef' = StatusAfterAutoPause(statusRef)
             /\ StopAutoConversation
             /\ messages' = Appended(messages, AutoPauseMessage)
             /\ messagesRef' = Appended(messages, AutoPauseMessage)
             /\ Finish(e)
             /\ lastOp' = "tick.autoPause"
             /\ Noted(Some(outcome))
             /\ sinceHalt' = HaltedByAuto(sinceHalt, statusRef, execs[e].origin)
             /\ UNCHANGED <<config, configRef, agentCountsRef, initialCountsRef, openai>>
        ELSE IF Exhausted(r[1])
        THEN /\ Finish(e)
             /\ lastOp' = "tick.skipped"
             /\ Noted(Some(outcome))
             /\ UNCHANGED <<status, statusRef, messages, messagesRef, config, configRef,
                            agentCountsRef, initialCountsRef, intervalRef, timers,
                            openai, sinceHalt>>
        ELSE /\ execs' = [execs EXCEPT ![e] =
                            [@ EXCEPT !.pc = "generating", !.nextAgent = r,
                                      !.maxCount = configRef[1].maxConversationCount]]
             /\ lastOp' = "tick.selected"
             /\ Noted(Some(outcome))
             /\ UNCHANGED <<status, statusRef, messages, messagesRef, config, configRef,
                            isProcessing, isProcessingRef, agentCountsRef,
                            initialCountsRef, intervalRef, timers, openai, sinceHalt>>

\* The arguments of the call in generateNextResponse.
GeneratorCall(agent, history, cfg) ==
    [agent |-> agent, history |-> history, topic |-> cfg.topic,
     systemPrompt |-> cfg.systemPrompt]

\* generateAgentResponse(agent, conversationHistory, topic): the parameters
\* the function declares and hands on.
GeneratorParams(call) ==
    [agent |-> call.agent, history |-> call.history, topic |-> call.topic]

\* The prompt generateGPTResponse and generateGeminiResponse build, part by
\* part: who the agent is, the topic, the transcript so far, the instruction.
AgentPrompt(params) ==
    <<<<"identity", params.agent.name>>, <<"topic", params.topic>>,
      <<"history", params.history>>, <<"instruction", "">>>>

\* The prompt a tick sends for the agent it chose.
PromptSent(agent, history, cfg) ==
    AgentPrompt(GeneratorParams(GeneratorCall(agent, history, cfg)))

\* Mutant: the dispatch has no branch for an unknown kind.
SupportedAny(agent) == TRUE

\* generateAgentResponse dispatches on agent.type and throws on any other kind.
Supported(agent) == agent.type \in {GPT, GEMINI}

\* Mutant: a successful turn leaves the counts as they are.
ConsumedNothing(counts, name, maxCount) == counts

\* The decrement: `maxCount && maxCount > 0 && counts[name] > 0`, maxCount being
\* the value read before the generator was called.
Consumed(counts, name, maxCount) ==
    IF BudgetOn(maxCount) /\ name \in DOMAIN counts /\ counts[name] > 0
    THEN [counts EXCEPT ![name] = counts[name] - 1]
    ELSE counts

\* Mutant: the agent record is built without the agent's name.
ReplyRecordUnnamed(agent) == Message(AGENT, <<"reply", agent.name>>, NullName)

\* The record a successful generation appends.
ReplyRecord(agent) == AgentMessage(agent)

GeneratorSucceeds(e) ==
    /\ execs[e].pc = "generating"
    /\ Supported(execs[e].nextAgent[1])
    /\ Room
    /\ agentCountsRef' =
          Consumed(agentCountsRef, execs[e].nextAgent[1].name, execs[e].maxCount)
    /\ messages' = Appended(messages, ReplyRecord(execs[e].nextAgent[1]))
    /\ messagesRef' = Appended(messages, ReplyRecord(execs[e].nextAgent[1]))
    /\ Finish(e)
    /\ lastOp' = "tick.success"
    /\ Noted(NoReply)
    /\ UNCHANGED geminiCall
    /\ sinceHalt' = Counted(sinceHalt, execs[e].origin)
    /\ UNCHANGED <<status, statusRef, config, configRef, initialCountsRef,
                   intervalRef, timers, openai>>

\* The reason the generator gives when it fails.
FailureReason(agent) == IF Supported(agent) THEN "upstream" ELSE "unsupported"

GeneratorFails(e) ==
    /\ execs[e].pc = "generating"
    /\ Room
    /\ messages' = Appended(messages, ErrorMessage(FailureReason(execs[e].nextAgent[1])))
    /\ messagesRef' = Appended(messages, ErrorMessage(FailureReason(execs[e].nextAgent[1])))
    /\ Finish(e)
    /\ lastOp' = "tick.failure"
    /\ Noted(NoReply)
    /\ UNCHANGED geminiCall
    /\ sinceHalt' = Counted(sinceHalt, execs[e].origin)
    /\ UNCHANGED <<status, statusRef, config, configRef, agentCountsRef,
                   initialCountsRef, intervalRef, timers, openai>>

(* ------------------ aiService.generateGeminiResponse ------------------- *)

\* The Gemini model names explored, in the order in which
\* getAvailableGeminiModels sorts them.
ModelOrder == <<"m1", "m2", "m3">>

ModelNames == {ModelOrder[i] : i \in 1..Len(ModelOrder)}

\* The lists getAvailableGeminiModels can return: some of the names, sorted
\* (the empty list when the service reports no model that generates content).
AvailableLists ==
    {SelectSeq(ModelOrder, LAMBDA m : m \in chosen) : chosen \in SUBSET ModelNames}

\* One call: whether the service holds a Gemini client, agent.model (null or a
\* name), the list getAvailableGeminiModels returns, and the models whose
\* generateContent call succeeds.
GeminiCall(client, model, available, working) ==
    [client |-> client, model |-> model, available |-> available, working |-> working]

GeminiCalls ==
    {GeminiCall(client, model, available, working) :
        client \in BOOLEAN, model \in {None} \cup {Some(m) : m \in ModelNames},
        available \in AvailableLists, working \in SUBSET ModelNames}

\* The errors the function raises itself, and the error of a failed attempt,
\* which names the model that failed.
NotInitialized == "notInitialized"
NoModels == "noModels"
GenericError == "generic"
AttemptError(m) == m

\* How a call ends: with the text of a model, or with an error; `tried` is the
\* sequence of models it called generateContent on.
Success(m, tried) == [ok |-> TRUE, text |-> m, error |-> "none", tried |-> tried]
Failure(error, tried) == [ok |-> FALSE, text |-> "none", error |-> error, tried |-> tried]

\* The loop over the available models: the selected model is skipped, the first
\* success returns, a failure is remembered in lastError; when the list is used
\* up, `throw lastError || new Error(...)`.
RECURSIVE TryAvailable(_, _, _, _, _)
TryAvailable(rest, selected, working, lastError, tried) ==
    IF rest = <<>>
    THEN Failure(IF lastError = None THEN GenericError ELSE lastError[1], tried)
    ELSE IF selected # None /\ Head(rest) = selected[1]
    THEN TryAvailable(Tail(rest), selected, working, lastError, tried)
    ELSE IF Head(rest) \in working
    THEN Success(Head(rest), Append(tried, Head(rest)))
    ELSE TryAvailable(Tail(rest), selected, working,
                      Some(AttemptError(Head(rest))), Append(tried, Head(rest)))

\* Mutant: the selected model is not tried, the list is walked at once.
GenerateGeminiListOnly(call) ==
    IF ~call.client THEN Failure(NotInitialized, <<>>)
    ELSE IF call.available = <<>> THEN Failure(NoModels, <<>>)
    ELSE TryAvailable(call.available, None, call.working, None, <<>>)

\* generateGeminiResponse: no client, the selected model (its failure is only
\* logged), the empty list, the loop.
GenerateGeminiResponse(call) ==
    IF ~call.client THEN Failure(NotInitialized, <<>>)
    ELSE IF call.model # None /\ call.model[1] \in call.working
    THEN Success(call.model[1], <<call.model[1]>>)
    ELSE IF call.available = <<>>
    THEN Failure(NoModels, IF call.model # None THEN <<call.model[1]>> ELSE <<>>)
    ELSE TryAvailable(call.available, call.model, call.working, None,
                      IF call.model # None THEN <<call.model[1]>> ELSE <<>>)

\* The function is called and settles.
CallGemini(call) ==
    /\ geminiCall' = Some([call |-> call, result |-> GenerateGeminiResponse(call)])
    /\ UNCHANGED <<progVars, lastOp, sinceHalt, fromStatus, lastReply>>

NextGemini == \E call \in GeminiCalls : CallGemini(call)

SpecGemini == Init /\ [][NextGemini]_vars

(* --------------------------- specification ----------------------------- *)

Next ==
    \/ \E cfg \in Configs : Initialize(cfg)
    \/ Pause
    \/ Resume
    \/ Stop
    \/ \E content \in UserTexts : AddUserMessage(content)
    \/ \E command \in Commands : HandleCommand(command)
    \/ Cleanup
    \/ StartConversation
    \/ DirectGenerate
    \/ TimerFire
    \/ \E e \in ExecIds : SelectFails(e)
    \/ \E e \in ExecIds : SelectReturns(e)
    \/ \E e \in ExecIds : GeneratorSucceeds(e)
    \/ \E e \in ExecIds : GeneratorFails(e)

Spec == Init /\ [][Next]_vars

\* The chat screen's buttons: pause is rendered while status is Running,
\* resume while it is Paused, stop always.
PauseButton == status = RUNNING /\ Pause
ResumeButton == status = PAUSED /\ Resume

\* The program as the screens drive it: the setup form, the chat form and
\* buttons, the delayed start, the timer and the continuations of a turn.
NextChat ==
    \/ \E cfg \in Configs : Initialize(cfg)
    \/ \E message \in Submitted : HandleSubmit(message)
    \/ PauseButton
    \/ ResumeButton
    \/ Stop
    \/ StartConversation
    \/ TimerFire
    \/ \E e \in ExecIds : SelectFails(e)
    \/ \E e \in ExecIds : SelectReturns(e)
    \/ \E e \in ExecIds : GeneratorSucceeds(e)
    \/ \E e \in ExecIds : GeneratorFails(e)

SpecChat == Init /\ [][NextChat]_vars

(* ------------------- the loop with calls that settle ------------------- *)

\* The configs of Configs and one whose roster is empty, for which the selector
\* has no agent to return.
LiveConfigs == Configs \cup {ConversationConfig(Topic, <<>>, GoodKey, None)}

\* The explored transcript has room for a record beyond those the turns in
\* flight will append.
Spare == Len(messages) + Cardinality(InFlight) < MaxMessages

\* The selector call of execution e settles, one way or the other.
SelectorSettles(e) == SelectFails(e) \/ SelectReturns(e)

\* The generator call of execution e settles, one way or the other.
GeneratorSettles(e) == GeneratorSucceeds(e) \/ GeneratorFails(e)

NextLive ==
    \/ \E cfg \in LiveConfigs : Initialize(cfg)
    \/ Pause
    \/ Spare /\ Resume
    \/ Stop
    \/ Spare /\ StartConversation
    \/ Spare /\ TimerFire
    \/ \E e \in ExecIds : SelectFails(e)
    \/ \E e \in ExecIds : SelectReturns(e)
    \/ \E e \in ExecIds : GeneratorSucceeds(e)
    \/ \E e \in ExecIds : GeneratorFails(e)

\* Every selector call and every generator call eventually returns or fails.
SpecLive ==
    /\ Init
    /\ [][NextLive]_vars
    /\ \A e \in ExecIds : WF_vars(SelectorSettles(e))
    /\ \A e \in ExecIds : WF_vars(GeneratorSettles(e))

\* A firing of the interval while the explored transcript has room.
TimerTick == Spare /\ TimerFire

\* The loop: every call settles and a live interval keeps firing.
SpecLoop ==
    /\ Init
    /\ [][NextLive]_vars
    /\ \A e \in ExecIds : WF_vars(SelectorSettles(e))
    /\ \A e \in ExecIds : WF_vars(GeneratorSettles(e))
    /\ WF_vars(TimerTick)

(* ------------- a budgeted conversation left to the loop ---------------- *)

\* The configs that carry a positive budget.
BudgetConfigs == {cfg \in Configs : BudgetOn(cfg.maxConversationCount)}

\* A moderator that names an agent with turns left whenever there is one.
PicksRemaining(agents, outcome) ==
    (\E n \in DOMAIN agentCountsRef : agentCountsRef[n] > 0)
        => /\ SelectNextSpeaker(agents, outcome) # None
           /\ CountOr0(agentCountsRef, SelectNextSpeaker(agents, outcome)[1].name) > 0

\* The selector call of execution e returns, the moderator being such a one.
CooperativeSelect(e) ==
    /\ SelectReturns(e)
    /\ lastReply' # NoReply
    /\ PicksRemaining(execs[e].agents, lastReply'[1])

\* The delayed start, the timer, and turns whose selector cooperates and whose
\* generator succeeds; the user may pause, resume and stop.
NextBudget ==
    \/ \E cfg \in BudgetConfigs : Initialize(cfg)
    \/ PauseButton
    \/ ResumeButton
    \/ Stop
    \/ StartConversation
    \/ TimerFire
    \/ \E e \in ExecIds : CooperativeSelect(e)
    \/ \E e \in ExecIds : GeneratorSucceeds(e)

\* Every call settles, the delayed start and the interval fire.
SpecBudget ==
    /\ Init
    /\ [][NextBudget]_vars
    /\ \A e \in ExecIds : WF_vars(CooperativeSelect(e))
    /\ \A e \in ExecIds : WF_vars(GeneratorSucceeds(e))
    /\ WF_vars(StartConversation)
    /\ WF_vars(TimerFire)

(* --------------------- SetupScreen.handleSubmit ------------------------ *)

\* The agent-count input: min="2" max="10", required.
AgentCountMin == 2
AgentCountMax == 10

\* One entry of the form's agents array.
AgentEntry(name, persona, type) == [name |-> name, persona |-> persona, type |-> type]

\* The form as submitted: the topic, the agents array (agentCount entries),
\* and the two keys.
Form(topic, agents, openaiKey, geminiKey, systemPrompt) ==
    [topic |-> topic, agents |-> agents, openai |-> openaiKey, gemini |-> geminiKey,
     systemPrompt |-> systemPrompt]

\* text.trim(): of the texts explored only " " changes.
Trim(text) == IF text = " " THEN "" ELSE text

ManyNames == <<"N1", "N2", "N3", "N4", "N5", "N6", "N7", "N8", "N9", "N10", "N11">>

\* The rosters a user can put together: two distinct names, the same name
\* twice, one agent, an agent without a name, one without a persona, and
\* eleven agents.
FormRosters ==
    {<<AgentEntry("A", "p", GPT), AgentEntry("B", "p", GEMINI)>>,
     <<AgentEntry("A", "p", GPT), AgentEntry("A", "p", GEMINI)>>,
     <<AgentEntry("A", "p", GPT)>>,
     <<AgentEntry("A", "p", GPT), AgentEntry(" ", "p", GEMINI)>>,
     <<AgentEntry("A", "p", GPT), AgentEntry("B", "", GEMINI)>>,
     [i \in 1..(AgentCountMax + 1) |->
         AgentEntry(ManyNames[i], "p", GPT)]}

Forms ==
    {Form(topic, agents, openaiKey, gemini, prompt) :
        topic \in {Topic, "", " "}, agents \in FormRosters,
        openaiKey \in {GoodKey, BadKey}, gemini \in {"", "gk"},
        prompt \in {"", SharedText}}

\* The browser's constraint validation of the agent-count input.
CountAllowed(form) == Len(form.agents) \in AgentCountMin..AgentCountMax

\* handleSubmit's own checks, each ending in an alert and a return.
FormRejected(form) ==
    \/ Trim(form.openai) = ""
    \/ Trim(form.gemini) = ""
    \/ Trim(form.topic) = ""
    \/ \E i \in 1..Len(form.agents) :
          Trim(form.agents[i].name) = "" \/ Trim(form.agents[i].persona) = ""

\* new ConversationConfig(topic, agentConfigs, openai, gemini, systemPrompt || null)
ConfigOfForm(form) ==
    LET cfg == ConversationConfig(form.topic,
                                  [i \in 1..Len(form.agents) |->
                                      AgentConfig(form.agents[i].name, form.agents[i].type)],
                                  form.openai, None)
    IN IF form.systemPrompt = "" THEN cfg ELSE WithSystemPrompt(cfg, form.systemPrompt)

\* The setup form is submitted: handleSubmit, then App.handleStartConversation.
SetupSubmit(form) ==
    /\ statusRef \in {SETUP, STOPPED}
    /\ IF CountAllowed(form) /\ ~FormRejected(form)
       THEN Initialize(ConfigOfForm(form))
       ELSE /\ lastOp' = "setup.rejected"
            /\ Noted(NoReply)
            /\ UNCHANGED geminiCall
            /\ UNCHANGED <<progVars, sinceHalt>>

\* The program driven from the setup form.
NextSetup ==
    \/ \E form \in Forms : SetupSubmit(form)
    \/ Stop
    \/ StartConversation
    \/ TimerFire
    \/ \E e \in ExecIds : SelectReturns(e)
    \/ \E e \in ExecIds : GeneratorSucceeds(e)
    \/ \E e \in ExecIds : GeneratorFails(e)

SpecSetup == Init /\ [][NextSetup]_vars

(* ------------------------ shared by the claims ------------------------- *)

IsPrefix(s, t) == Len(s) <= Len(t) /\ SubSeq(t, 1, Len(s)) = s

Last(s) == s[Len(s)]

\* A step in which the function generateNextResponse was entered.
TickInvoked(op) ==
    op \in {"generate.rejected", "generate.started", "timer.rejected",
            "timer.started", "start.rejected", "start.started"}

\* Budget tracking is on for the installed config.
Tracking == configRef # None /\ BudgetOn(configRef[1].maxConversationCount)

MaxOf(cfgRef) == cfgRef[1].maxConversationCount[1]

\* The place of the last record that opens a round of the budget: the topic
\* record of initialize or the reset record of resume (0 when there is none).
ResetAt(msgs) ==
    LET opens == {i \in 1..Len(msgs) :
                    msgs[i].type = SYSTEM /\ msgs[i].content[1] \in {"topic", "resumed"}}
    IN IF opens = {} THEN 0 ELSE CHOOSE i \in opens : \A j \in opens : j <= i

\* The agent records behind that place, and those of them that name an agent.
AgentRecordsSince(msgs) ==
    {i \in (ResetAt(msgs) + 1)..Len(msgs) : msgs[i].type = AGENT}

RecordsOfSince(msgs, name) ==
    {i \in AgentRecordsSince(msgs) : msgs[i].agentName = name}

\* RECURSIVE sum of the remaining counts.
RECURSIVE SumOver(_, _)
SumOver(counts, names) ==
    IF names = {} THEN 0
    ELSE LET n == CHOOSE x \in names : TRUE
         IN counts[n] + SumOver(counts, names \ {n})

(* ------------------------------- C1 ------------------------------------ *)

\* C1: at any time at most one execution of generateNextResponse is between
\* setting and clearing the in-flight flag, whatever the interleaving of timer
\* firings, startConversation calls and direct calls; the flag is set exactly
\* while one is.
C1_MutualExclusion ==
    /\ Cardinality(InFlight) <= 1
    /\ isProcessingRef <=> InFlight # {}

\* A direct call arrived while a turn was waiting for its generator.
C1_Witness ==
    /\ lastOp = "generate.rejected"
    /\ \E e \in ExecIds : execs[e].pc = "generating"

(* ------------------------------- C2 ------------------------------------ *)

\* C2: once status is Stopped, no operation of the same conversation (anything
\* but a new initialize) changes it.
C2_StoppedIsTerminal ==
    [][(statusRef = STOPPED /\ configRef # None /\ lastOp' # "initialize")
          => (statusRef' = STOPPED /\ status' = STOPPED)]_vars

(* ------------------------------- C3 ------------------------------------ *)

\* C3: with a positive budget configured, every roster agent has a remaining
\* count, and it is an integer between 0 and the maximum.
C3_BudgetInRange ==
    Tracking =>
        /\ DOMAIN agentCountsRef = AgentNames(configRef[1].agents)
        /\ \A n \in DOMAIN agentCountsRef :
              agentCountsRef[n] \in 0..MaxOf(configRef)

\* After a resume() had refilled the counts, a turn consumed an agent's last unit.
C3_Witness ==
    /\ Tracking
    /\ lastOp = "tick.success"
    /\ \E n \in DOMAIN agentCountsRef : agentCountsRef[n] = 0
    /\ \E i \in 1..Len(messages) : messages[i] = ResumeMessage

(* ------------------------------- C4 ------------------------------------ *)

\* C4: every operation other than initialize leaves the previous transcript a
\* prefix of the new one (the presented transcript and the one callbacks read).
C4_AppendOnly ==
    [][lastOp' # "initialize"
          => (IsPrefix(messages, messages') /\ IsPrefix(messagesRef, messagesRef'))]_vars

\* A user record, then a reply appended behind it.
C4_Witness ==
    /\ lastOp = "tick.success"
    /\ Len(messages) >= 3
    /\ messages[Len(messages) - 1].type = USER
    /\ Last(messages).type = AGENT

(* ------------------------------- C5 ------------------------------------ *)

C6_GeneratorFailure ==
    [][\A e \in ExecIds :
          (execs[e].pc = "generating" /\ execs'[e].pc # "generating")
          => /\ ~Supported(execs[e].nextAgent[1]) => lastOp' = "tick.failure"
             /\ lastOp' = "tick.failure" =>
                  /\ \E reason \in {"upstream", "unsupported"} :
                        /\ messages' = Append(messages, ErrorMessage(reason))
                        /\ reason = "unsupported" <=> ~(execs[e].nextAgent[1].type \in {GPT, GEMINI})
                  /\ Last(messages').type = SYSTEM
                  /\ messagesRef' = messages'
                  /\ statusRef' = statusRef
                  /\ status' = status
                  /\ timers' = timers
                  /\ intervalRef' = intervalRef
                  /\ agentCountsRef' = agentCountsRef
                  /\ ~isProcessingRef'
                  /\ ~isProcessing']_vars

\* An agent of an unsupported kind failed while the loop was live.
C6_Witness ==
    /\ lastOp = "tick.failure"
    /\ statusRef = RUNNING
    /\ timers # {}
    /\ Last(messages) = ErrorMessage("unsupported")

(* ------------------------------- C7 ------------------------------------ *)

\* C7: with tracking on, a count increases only through resume() called from
\* Paused, which sets every count to the maximum; across a step that begins and
\* ends Running no count increases.
C7_BudgetMonotone ==
    [][(Tracking /\ lastOp' # "initialize")
          => /\ (\E n \in DOMAIN agentCountsRef \cap DOMAIN agentCountsRef' :
                    agentCountsRef'[n] > agentCountsRef[n])
                => /\ lastOp' \in {"resume", "handleCommand.resume"}
                   /\ statusRef = PAUSED
                   /\ \A n \in DOMAIN agentCountsRef' :
                         agentCountsRef'[n] = MaxOf(configRef)
             /\ (statusRef = RUNNING /\ statusRef' = RUNNING)
                => \A n \in DOMAIN agentCountsRef \cap DOMAIN agentCountsRef' :
                      agentCountsRef'[n] <= agentCountsRef[n]]_vars

(* ------------------------------- C8 ------------------------------------ *)

\* C8: generateNextResponse entered while a turn is in flight, or with no config
\* installed, starts no execution and changes nothing the hook owns (the timer
\* restart of startConversation, which follows the call, is not its doing).
C8_GuardNoOp ==
    [][(TickInvoked(lastOp') /\ (configRef = None \/ isProcessingRef))
          => /\ UNCHANGED tickVars
             /\ lastOp' \notin {"start.rejected", "start.started"}
                  => UNCHANGED <<intervalRef, timers>>]_vars

\* startConversation called generateNextResponse while a turn was in flight.
C8_Witness ==
    /\ lastOp = "start.rejected"
    /\ \E e \in ExecIds : execs[e].pc = "selecting"

(* ------------------------------- C9 ------------------------------------ *)

\* C9: a turn in flight when pause() or stop() is called is not cancelled: its
\* generator can still succeed, and when it does its agent record is appended,
\* whatever the status then is.
C9_InFlightCompletes ==
    /\ [](\A e \in ExecIds :
            ( /\ execs[e].pc = "generating"
              /\ execs[e].nextAgent[1].type \in {GPT, GEMINI}
              /\ Room
              /\ statusRef \in {PAUSED, STOPPED} )
            => ENABLED GeneratorSucceeds(e))
    /\ [][\A e \in ExecIds :
            (execs[e].pc = "generating" /\ lastOp' = "tick.success")
            => /\ messages' = Append(messages, AgentMessage(execs[e].nextAgent[1]))
               /\ messagesRef' = messages'
               /\ statusRef' = statusRef]_vars

\* The reply of a turn arrived after the conversation had been stopped.
C9_Witness ==
    /\ lastOp = "tick.success"
    /\ statusRef = STOPPED
    /\ Last(messages).type = AGENT

(* ------------------------------- C10 ----------------------------------- *)

\* C10: pause() from Running (button or command) leaves status Paused and no
\* timer; while status is Paused neither the timer nor startConversation starts
\* an execution; and between a pause and the next resume() at most one record
\* is appended by such an execution (the one in flight at the pause).
C10_PauseHalts ==
    /\ [][(lastOp' \in {"pause", "handleCommand.pause"} /\ statusRef = RUNNING)
            => (statusRef' = PAUSED /\ status' = PAUSED /\ timers' = {})]_vars
    /\ [][statusRef = PAUSED
            => \A e \in ExecIds :
                  (execs[e].pc = "idle" /\ execs'[e].pc # "idle")
                  => execs'[e].origin = "direct"]_vars
    /\ [](sinceHalt.kind = "pause" => sinceHalt.n <= 1)

\* The turn in flight at the pause appended its record, and the delayed start
\* that arrived afterwards started nothing.
C10_Witness ==
    /\ sinceHalt = [kind |-> "pause", n |-> 1]
    /\ statusRef = PAUSED
    /\ lastOp = "start.skipped"
    /\ InFlight = {}

(* ------------------------------- C11 ----------------------------------- *)

\* C11: resume() from Paused (button or command) sets status Running and leaves
\* exactly one live timer, the one the hook holds; with budget tracking on it sets
\* every roster agent's count to the maximum and appends exactly the one reset
\* record; with no budget configured it appends nothing and leaves the counts.
C11_ResumeFromPaused ==
    [][(lastOp' \in {"resume", "handleCommand.resume"} /\ statusRef = PAUSED)
          => /\ statusRef' = RUNNING
             /\ status' = RUNNING
             /\ intervalRef' # 0
             /\ timers' = {intervalRef'}
             /\ Tracking =>
                  /\ DOMAIN agentCountsRef' = AgentNames(configRef[1].agents)
                  /\ \A n \in DOMAIN agentCountsRef' :
                        agentCountsRef'[n] = MaxOf(configRef)
                  /\ messages' = Append(messages, ResumeMessage)
                  /\ messagesRef' = messages'
             /\ ~Tracking =>
                  /\ messages' = messages
                  /\ messagesRef' = messagesRef
                  /\ agentCountsRef' = agentCountsRef]_vars

\* The resume button was pressed in Paused after a turn had used up a unit.
C11_Witness ==
    /\ lastOp = "resume"
    /\ fromStatus = PAUSED
    /\ Tracking
    /\ statusRef = RUNNING
    /\ timers # {}
    /\ Last(messages) = ResumeMessage
    /\ \E i \in 1..Len(messages) : messages[i].type = AGENT

(* ------------------------------- C12 ----------------------------------- *)

\* C12: initialize(config) from Setup installs the config, sets status Running,
\* makes the transcript exactly the one topic record whatever it held, and sets
\* every roster agent's count to a positive maximum, or to nothing when the
\* maximum is null or zero; with tracking off no turn is skipped or paused for
\* exhaustion.
C12_Initialize ==
    /\ [][(lastOp' = "initialize" /\ statusRef = SETUP)
            => /\ configRef' # None
               /\ configRef'[1] \in Configs
               /\ config' = configRef'
               /\ statusRef' = RUNNING
               /\ status' = RUNNING
               /\ messages' = <<Message(SYSTEM, <<"topic", configRef'[1].topic>>, NullName)>>
               /\ messagesRef' = messages'
               /\ LET m == configRef'[1].maxConversationCount IN
                  IF m # None /\ m[1] > 0
                  THEN /\ DOMAIN agentCountsRef' = AgentNames(configRef'[1].agents)
                       /\ \A n \in DOMAIN agentCountsRef' : agentCountsRef'[n] = m[1]
                  ELSE agentCountsRef' = <<>>]_vars
    /\ [](lastOp \in {"tick.autoPause", "tick.skipped"} => Tracking)

\* A budgeted config was installed from Setup.
C12_Witness ==
    /\ lastOp = "initialize"
    /\ fromStatus = SETUP
    /\ Tracking
    /\ Len(messages) = 1
    /\ \A n \in AgentNames(configRef[1].agents) : agentCountsRef[n] = MaxOf(configRef)

(* ------------------------------- C13 ----------------------------------- *)

\* C13: whenever status is not Setup the transcript is non-empty and its first
\* record is the system record announcing the topic of the installed config.
C13_TopicFirst ==
    (statusRef # SETUP \/ status # SETUP)
        => /\ messages # <<>>
           /\ configRef # None
           /\ messages[1] = TopicMessage(configRef[1])

(* ------------------------------- C14 ----------------------------------- *)

\* C14: while status is Setup no operation but initialize changes it.
C14_SetupOnlyInitialize ==
    [][(statusRef = SETUP /\ lastOp' # "initialize")
          => (statusRef' = SETUP /\ status' = SETUP)]_vars

(* ------------------------------- C15 ----------------------------------- *)

\* C15: stop() from Running or Paused ends with status Stopped and no live
\* timer; stop() called when status is already Stopped changes nothing the hook
\* or the service owns.
C15_IdempotentStop ==
    [][lastOp' = "stop"
          => /\ statusRef \in {RUNNING, PAUSED}
                => /\ statusRef' = STOPPED
                   /\ status' = STOPPED
                   /\ timers' = {}
                   /\ intervalRef' = 0
             /\ statusRef = STOPPED => UNCHANGED progVars]_vars

\* stop() was called a second time on a conversation already stopped.
C15_Witness ==
    /\ lastOp = "stop"
    /\ fromStatus = STOPPED
    /\ statusRef = STOPPED
    /\ configRef # None
    /\ timers = {}

(* ------------------------------- C16 ----------------------------------- *)

\* C16: submitting exactly the pause command performs the pause (status Paused,
\* no timer), submitting exactly the resume command performs the resume (status
\* Running, one timer); either is reported as handled and adds no user record
\* to the transcript.
C16_CommandsIntercepted ==
    [][/\ lastOp' = "submit.pause"
            => /\ statusRef' = PAUSED
               /\ status' = PAUSED
               /\ timers' = {}
               /\ intervalRef' = 0
               /\ Handled(CmdPause)
               /\ messages' = messages
               /\ messagesRef' = messagesRef
       /\ lastOp' = "submit.resume"
            => /\ statusRef' = RUNNING
               /\ status' = RUNNING
               /\ intervalRef' # 0
               /\ timers' = {intervalRef'}
               /\ Handled(CmdResume)
               /\ IsPrefix(messages, messages')
               /\ messagesRef' = messages'
               /\ \A i \in (Len(messages) + 1)..Len(messages') :
                     messages'[i].type # USER]_vars

\* The pause command was submitted while the conversation was running.
C16_Witness ==
    /\ lastOp = "submit.pause"
    /\ fromStatus = RUNNING
    /\ statusRef = PAUSED
    /\ timers = {}
    /\ \A i \in 1..Len(messages) : messages[i].type # USER

(* ------------------------------- C17 ----------------------------------- *)

\* C17: a submitted text that starts with "/" but is neither command changes no
\* status, timer or count and is appended exactly once, as a user record
\* carrying the text.
C17_UnknownCommandStored ==
    [][lastOp' = "submit.unknown"
          => /\ statusRef' = statusRef
             /\ status' = status
             /\ timers' = timers
             /\ intervalRef' = intervalRef
             /\ agentCountsRef' = agentCountsRef
             /\ messages' = Append(messages, Message(USER, <<"user", "/unknown">>, NullName))
             /\ messagesRef' = messages']_vars

\* An unknown command was submitted while the conversation was running.
C17_Witness ==
    /\ lastOp = "submit.unknown"
    /\ statusRef = RUNNING
    /\ Last(messages) = UserMessage("/unknown")
    /\ Cardinality({i \in 1..Len(messages) : messages[i].type = USER}) = 1

(* ------------------------------- C18 ----------------------------------- *)

\* C18: however the moderator call settles, the agent the tick goes on with is
\* a member of the roster: the one whose name equals the name in the reply when
\* the roster has it, the first of the roster otherwise; that agent is the one
\* asked to generate (or the one whose exhausted budget ends the tick).
C18_SelectorFallback ==
    [][\A e \in ExecIds :
          (execs[e].pc = "selecting" /\ lastReply' # NoReply)
          => LET roster == execs[e].agents
                 reply == lastReply'[1]
                 named == {i \in 1..Len(roster) :
                              /\ ~reply.failed
                              /\ reply.name # None
                              /\ roster[i].name = reply.name[1]}
                 chosen == IF named # {} THEN roster[CHOOSE i \in named : TRUE]
                           ELSE roster[1]
             IN /\ \E i \in 1..Len(roster) : roster[i] = chosen
                /\ lastOp' \in {"tick.selected", "tick.skipped", "tick.autoPause"}
                /\ lastOp' = "tick.selected"
                     => /\ execs'[e].pc = "generating"
                        /\ execs'[e].nextAgent = Some(chosen)
                /\ lastOp' \in {"tick.skipped", "tick.autoPause"}
                     => /\ Tracking
                        /\ CountOr0(agentCountsRef, chosen.name) = 0]_vars

\* The reply named C, which the roster [A, B] does not have: A is asked.
C18_Witness ==
    /\ lastOp = "tick.selected"
    /\ lastReply = Some(SelectorOutcome(FALSE, Some("C")))
    /\ \E e \in ExecIds :
          /\ execs[e].pc = "generating"
          /\ execs[e].agents = RosterAB
          /\ execs[e].nextAgent = Some(RosterAB[1])

(* ------------------------------- C19 ----------------------------------- *)

\* C19: when the selection step of a tick ends, no error record has been
\* appended for it and the tick has a speaker: it goes on to the budget check
\* and the generation.
C19_SelectionNeverSurfaces ==
    [][\A e \in ExecIds :
          (execs[e].pc = "selecting" /\ execs'[e].pc # "selecting")
          => /\ lastOp' \in {"tick.selected", "tick.skipped", "tick.autoPause"}
             /\ ~(/\ Len(messages') > Len(messages)
                  /\ Last(messages').content[1] = "error")]_vars

(* ------------------------------- C20 ----------------------------------- *)

\* C20: when the generator of a tick succeeds, exactly one agent record naming
\* the chosen agent and carrying its text is appended; with tracking on the
\* chosen agent's count goes down by exactly 1 and no other count changes, with
\* tracking off no count changes.
C20_SuccessConsumesOne ==
    [][\A e \in ExecIds :
          (execs[e].pc = "generating" /\ lastOp' = "tick.success")
          => LET chosen == execs[e].nextAgent[1] IN
             /\ messages' = Append(messages,
                                Message(AGENT, <<"reply", chosen.name>>, chosen.name))
             /\ messagesRef' = messages'
             /\ Tracking
                  => /\ chosen.name \in DOMAIN agentCountsRef
                     /\ agentCountsRef' =
                           [agentCountsRef EXCEPT ![chosen.name] = @ - 1]
             /\ ~Tracking => agentCountsRef' = agentCountsRef]_vars

(* ------------------------------- C21 ----------------------------------- *)

\* C21: a new conversation starts with the in-flight flag clear, and a turn
\* that was in flight when initialize() installed it appends nothing to the new
\* transcript and charges none of its counts: the step that follows initialize,
\* when it is the end of such a turn, leaves transcript and counts as they are.
C21_FreshPerConversation ==
    /\ [](lastOp = "initialize" => (~isProcessingRef /\ ~isProcessing))
    /\ [][(lastOp = "initialize" /\ InFlight # {}
             /\ \E e \in InFlight : execs'[e].pc # execs[e].pc)
            => /\ messages' = messages
               /\ messagesRef' = messagesRef
               /\ agentCountsRef' = agentCountsRef]_vars

(* ------------------------------- C22 ----------------------------------- *)

\* C22: initialize is reached only with a topic that is not blank and a roster
\* of 2 to 10 agents whose names are pairwise different.
C22_SetupValidates ==
    [][lastOp' = "initialize"
          => LET cfg == configRef'[1] IN
             /\ cfg.topic \notin {"", " "}
             /\ Len(cfg.agents) \in 2..10
             /\ \A i, j \in 1..Len(cfg.agents) :
                   i # j => cfg.agents[i].name # cfg.agents[j].name]_vars

(* ------------------------------- C23 ----------------------------------- *)

\* C23: cleanup() leaves no live timer whatever the state it is called in, and
\* the step that follows teardown (a callback still pending then, such as the
\* delayed start) starts no timer and no timer-driven turn.
C23_TeardownClearsTimer ==
    /\ [](lastOp = "cleanup" => (timers = {} /\ intervalRef = 0))
    /\ [][(lastOp = "cleanup"
             /\ lastOp' \in {"start.skipped", "start.rejected", "start.started",
                             "timer.skipped", "timer.rejected", "timer.started"})
            => /\ timers' = {}
               /\ \A e \in ExecIds :
                     (execs[e].pc = "idle" /\ execs'[e].pc # "idle")
                     => execs'[e].origin \notin {"timer", "start"}]_vars

(* ------------------------------- C26 ----------------------------------- *)

\* C26: when the installed config carries shared instruction text, the prompt
\* a tick sends for the agent it chose begins with that text.
C26_SharedPromptPrefixed ==
    [][\A e \in ExecIds :
          ( /\ lastOp' = "tick.selected"
            /\ execs'[e].pc = "generating"
            /\ Supported(execs'[e].nextAgent[1])
            /\ configRef[1].systemPrompt # None )
          => PromptSent(execs'[e].nextAgent[1], messagesRef, configRef[1])[1]
                = <<"shared", configRef[1].systemPrompt[1]>>]_vars

(* ------------------------------- C24 ----------------------------------- *)

\* C24: when startConversation() is the step that follows an initialize from
\* Setup, no timer exists yet and no turn is in flight; it starts exactly one
\* turn and, in the same call, the periodic timer.  Whenever it is called
\* without a config or with a status other than Running it changes nothing.
C24_FirstTick ==
    /\ [][(/\ lastOp = "initialize"
            /\ fromStatus = SETUP
            /\ lastOp' \in {"start.skipped", "start.rejected", "start.started"})
            => /\ timers = {}
               /\ InFlight = {}
               /\ lastOp' = "start.started"
               /\ Cardinality({e \in ExecIds : execs'[e].pc # "idle"}) = 1
               /\ \A e \in ExecIds :
                     execs'[e].pc # "idle"
                     => (execs'[e].pc = "selecting" /\ execs'[e].origin = "start")
               /\ intervalRef' # 0
               /\ timers' = {intervalRef'}]_vars
    /\ [][(/\ lastOp' \in {"start.skipped", "start.rejected", "start.started"}
            /\ ~(configRef # None /\ statusRef = RUNNING))
            => (lastOp' = "start.skipped" /\ UNCHANGED progVars)]_vars

\* The first turn of a conversation was started by startConversation().
C24_Witness ==
    /\ lastOp = "start.started"
    /\ Len(messages) = 1
    /\ statusRef = RUNNING
    /\ timers # {}
    /\ sinceHalt = NoHalt
    /\ \E e \in ExecIds : execs[e].pc = "selecting" /\ execs[e].origin = "start"

(* ------------------------------- C25 ----------------------------------- *)

\* C25: in a step taken while status is Paused or Stopped (other than a new
\* initialize) no agent's remaining count decreases.
C25_DecrementOnlyRunning ==
    [][(statusRef \in {PAUSED, STOPPED} /\ lastOp' # "initialize")
          => \A n \in DOMAIN agentCountsRef \cap DOMAIN agentCountsRef' :
                agentCountsRef'[n] >= agentCountsRef[n]]_vars

(* ------------------------------- C27 ----------------------------------- *)

\* C27: with tracking on, when the agent the selector settles on has no count
\* left while another agent has, the tick ends there: no generator is called,
\* the flag is cleared, and transcript, counts, status, timer and config are
\* as before.
C27_SkipExhausted ==
    [][\A e \in ExecIds :
          ( /\ execs[e].pc = "selecting"
            /\ lastReply' # NoReply
            /\ Tracking
            /\ CountOr0(agentCountsRef,
                        SelectNextSpeaker(execs[e].agents, lastReply'[1])[1].name) = 0
            /\ \E n \in DOMAIN agentCountsRef : agentCountsRef[n] > 0 )
          => /\ lastOp' = "tick.skipped"
             /\ execs'[e].pc = "idle"
             /\ ~isProcessingRef'
             /\ ~isProcessing'
             /\ UNCHANGED <<messages, messagesRef, agentCountsRef, initialCountsRef,
                            status, statusRef, timers, intervalRef, config, configRef,
                            openai>>]_vars

\* A tick was dropped for an exhausted agent while the loop was live.
C27_Witness ==
    /\ lastOp = "tick.skipped"
    /\ statusRef = RUNNING
    /\ timers # {}
    /\ InFlight = {}
    /\ \E n \in DOMAIN agentCountsRef : agentCountsRef[n] = 0
    /\ \E n \in DOMAIN agentCountsRef : agentCountsRef[n] > 0

(* ------------------------------- C28 ----------------------------------- *)

\* C28: a user message submitted while a turn is in flight is appended at once,
\* behind everything the transcript holds, and the turn is left in flight; the
\* record of a turn is appended when the turn ends, behind everything the
\* transcript holds then.
C28_OrderedByCompletion ==
    /\ [][(lastOp' = "addUserMessage" /\ InFlight # {})
            => /\ \E content \in UserTexts :
                     messages' = Append(messages, Message(USER, <<"user", content>>, NullName))
               /\ messagesRef' = messages'
               /\ execs' = execs]_vars
    /\ [][lastOp' \in {"tick.success", "tick.failure", "tick.selectError"}
            => /\ Len(messages') = Len(messages) + 1
               /\ SubSeq(messages', 1, Len(messages)) = messages
               /\ Last(messages').type \in {AGENT, SYSTEM}
               /\ messagesRef' = messages']_vars

\* A user message was submitted while a turn was waiting for its generator.
C28_Witness ==
    /\ lastOp = "addUserMessage"
    /\ Last(messages).type = USER
    /\ \E e \in ExecIds : execs[e].pc = "generating"

(* ------------------------------- C29 ----------------------------------- *)

\* C29: every record of the transcript is a system, user or agent record and
\* carries an agent name exactly when it is an agent record; the name an agent
\* record carries is that of the agent chosen for its tick, a member of that
\* tick's roster.
C29_RecordKinds ==
    /\ [](\A i \in 1..Len(messages) :
            /\ messages[i].type \in {SYSTEM, USER, AGENT}
            /\ messages[i].agentName # NullName <=> messages[i].type = AGENT)
    /\ [][\A e \in ExecIds :
            (execs[e].pc = "generating" /\ lastOp' = "tick.success")
            => /\ Last(messages').type = AGENT
               /\ Last(messages').agentName = execs[e].nextAgent[1].name
               /\ \E i \in 1..Len(execs[e].agents) :
                     execs[e].agents[i].name = Last(messages').agentName]_vars

\* A transcript holding a record of each kind, the last one by agent B.
C29_Witness ==
    /\ lastOp = "tick.success"
    /\ Last(messages).type = AGENT
    /\ Last(messages).agentName = "B"
    /\ \E i \in 1..Len(messages) : messages[i].type = USER
    /\ messages[1].type = SYSTEM

(* ------------------------------- C30 ----------------------------------- *)

\* C30: provided every selector and generator call settles, a flag that is set
\* is eventually cleared; and whichever way an execution ends (no agent, agent
\* exhausted, automatic pause, success, failure of either call) the step that
\* ends it clears the flag.
C30_FlagEventuallyCleared ==
    /\ isProcessingRef ~> ~isProcessingRef
    /\ [][\A e \in ExecIds :
            (execs[e].pc # "idle" /\ execs'[e].pc = "idle")
            => /\ ~isProcessingRef'
               /\ ~isProcessing'
               /\ lastOp' \in {"tick.noAgent", "tick.skipped", "tick.autoPause",
                               "tick.success", "tick.failure", "tick.selectError"}]_vars

\* A tick ended because the selector had no agent to return, flag cleared.
C30_Witness ==
    /\ lastOp = "tick.noAgent"
    /\ ~isProcessingRef
    /\ InFlight = {}

(* ------------------------------- C31 ----------------------------------- *)

\* The loop is live on a transcript of k records: status Running, the interval
\* started, a config with agents and without a budget installed.
LoopLive(k) ==
    /\ statusRef = RUNNING
    /\ timers # {}
    /\ configRef # None
    /\ configRef[1].agents # <<>>
    /\ ~Tracking
    /\ Len(messages) = k

\* A tick has just appended the record that follows the first k.
TickRecorded(k) ==
    /\ Len(messages) = k + 1
    /\ lastOp \in {"tick.success", "tick.failure", "tick.selectError"}
    /\ \/ Last(messages).type = AGENT
       \/ Last(messages).type = SYSTEM /\ Last(messages).content[1] = "error"

\* C31: while the loop is live (status Running, timer started, no budget) and
\* every selector and generator call settles and the timer keeps firing, the
\* loop does not stall: whatever the transcript holds, a further tick record
\* (an agent reply or an error record) is appended, unless status leaves
\* Running first.
C31_LoopNeverStalls ==
    \A k \in 1..(MaxMessages - 1) :
        LoopLive(k) ~> (statusRef # RUNNING \/ TickRecorded(k))

\* The loop has appended a reply and then an error record and is still live.
C31_Witness ==
    /\ lastOp = "tick.failure"
    /\ statusRef = RUNNING
    /\ timers # {}
    /\ ~Tracking
    /\ Len(messages) >= 3
    /\ messages[Len(messages) - 1].type = AGENT
    /\ Last(messages).content[1] = "error"

(* ------------------------------- C32 ----------------------------------- *)

\* The explored transcript has room for the turns the remaining counts allow
\* and for the automatic-pause record behind them.
RoundFits ==
    Len(messages) + SumOver(agentCountsRef, DOMAIN agentCountsRef) + 1 <= MaxMessages

C33_TimerOnlyRunning ==
    /\ [](timers # {} => (statusRef = RUNNING /\ status = RUNNING))
    /\ [][lastOp' \in {"pause", "handleCommand.pause", "stop", "tick.autoPause"}
            => /\ timers' = {}
               /\ intervalRef' = 0
               /\ statusRef' = IF lastOp' = "stop" THEN STOPPED ELSE PAUSED
               /\ status' = statusRef']_vars
    /\ [][(timers' # {} /\ (timers = {} \/ lastOp' \in {"resume", "handleCommand.resume",
                                                       "start.started", "start.rejected"}))
            => statusRef' = RUNNING]_vars

\* The interval that a resume() started has fired and begun a turn.
C33_Witness ==
    /\ lastOp = "timer.started"
    /\ statusRef = RUNNING
    /\ timers = {intervalRef}
    /\ \E i \in 1..Len(messages) : messages[i] = ResumeMessage

(* ------------------------------- C34 ----------------------------------- *)

\* C34: at most one interval is live and it is the one the hook holds, however
\* startConversation() and resume() have been called; so pause(), stop() and
\* cleanup() each leave no interval at all.
C34_SingleTimer ==
    /\ [](Cardinality(timers) <= 1 /\ timers = Held(intervalRef, timers))
    /\ [][lastOp' \in {"pause", "handleCommand.pause", "stop", "cleanup"}
            => timers' = {}]_vars

\* startConversation() was called again, on a conversation that a resume() had
\* already given its interval, and one interval is live.
C34_Witness ==
    /\ lastOp = "start.rejected"
    /\ fromStatus = RUNNING
    /\ intervalRef # 0
    /\ timers = {intervalRef}
    /\ sinceHalt = NoHalt
    /\ \E i \in 1..Len(messages) : messages[i] = ResumeMessage

(* ------------------------------- C35 ----------------------------------- *)

Occurrences(msgs, r) == Cardinality({i \in 1..Len(msgs) : msgs[i] = r})

\* The step puts exactly the record r behind the transcript: every record that
\* was there stays where it was, and r occurs once more than before.
AppendsOnce(r) ==
    /\ Len(messages') = Len(messages) + 1
    /\ \A i \in 1..Len(messages) : messages'[i] = messages[i]
    /\ Last(messages') = r
    /\ Occurrences(messages', r) = Occurrences(messages, r) + 1
    /\ messagesRef' = messages'

\* C36: no append is lost or doubled, whatever is in flight: addUserMessage
\* appends its user record exactly once, a resume() that resets the counts its
\* reset record, a turn that ends in success or failure its one record, each
\* behind everything the transcript held; and no other step but initialize
\* changes the transcript.
C36_NoLostAppend ==
    [][/\ lastOp' = "addUserMessage"
            => \E content \in UserTexts :
                  AppendsOnce(Message(USER, <<"user", content>>, NullName))
       /\ (lastOp' \in {"resume", "handleCommand.resume"}
              /\ configRef # None /\ Truthy(configRef[1].maxConversationCount))
            => AppendsOnce(ResumeMessage)
       /\ \A e \in ExecIds :
            (execs[e].pc = "generating" /\ lastOp' = "tick.success")
            => AppendsOnce(Message(AGENT, <<"reply", execs[e].nextAgent[1].name>>,
                                   execs[e].nextAgent[1].name))
       /\ lastOp' \in {"tick.failure", "tick.selectError"}
            => \E reason \in {"upstream", "unsupported", "openai"} :
                  AppendsOnce(ErrorMessage(reason))
       /\ lastOp' = "tick.autoPause" => AppendsOnce(AutoPauseMessage)
       /\ lastOp' \notin {"addUserMessage", "resume", "handleCommand.resume",
                          "tick.success", "tick.failure", "tick.selectError",
                          "tick.autoPause", "initialize"}
            => (messages' = messages /\ messagesRef' = messagesRef)]_vars

\* A resume() and a user message came in while a turn was in flight; the three
\* records are there, each once, in the order in which they were appended.
C36_Witness ==
    /\ lastOp = "tick.success"
    /\ Len(messages) = 4
    /\ messages[2] = ResumeMessage
    /\ messages[3].type = USER
    /\ messages[4].type = AGENT
    /\ \A i \in 1..Len(messages) : Occurrences(messages, messages[i]) = 1

(* ------------------------------- C37 ----------------------------------- *)

\* C37: the four refs that callbacks read agree with the state that is
\* presented, after any sequence of operations; and the selector call of a
\* turn that begins is handed the whole transcript as it is then.
C37_RefsAgree ==
    /\ [](/\ statusRef = status
          /\ messagesRef = messages
          /\ configRef = config
          /\ isProcessingRef = isProcessing)
    /\ [][(\E e \in ExecIds : execs[e].pc = "idle" /\ execs'[e].pc = "selecting")
            => /\ SelectorCall.history = messages
               /\ SelectorCall.agents = config[1].agents]_vars

\* The timer began a turn after a user message had been appended: its selector
\* call was handed the transcript that ends with it.
C37_Witness ==
    /\ lastOp = "timer.started"
    /\ Last(messagesRef).type = USER
    /\ messagesRef = messages
    /\ isProcessingRef /\ isProcessing
    /\ \E e \in ExecIds : execs[e].pc = "selecting"

(* ------------------------------- C38 ----------------------------------- *)

\* C38: an initialize whose key installation fails leaves status, config,
\* transcript and counts (state and refs) as they were before the call.
C38_InitializeAllOrNothing ==
    [][lastOp' = "initialize.failed"
          => UNCHANGED <<status, statusRef, config, configRef, messages, messagesRef,
                         agentCountsRef, initialCountsRef>>]_vars

(* ------------------------------- C39 ----------------------------------- *)

\* The attempts in the order the claim gives: the selected model when one is
\* set, then the models of the list that are not the selected one.
Planned(call) ==
    (IF call.model # None THEN <<call.model[1]>> ELSE <<>>)
    \o SelectSeq(call.available, LAMBDA m : call.model = None \/ m # call.model[1])

\* The places of the planned attempts that succeed.
Hits(call) == {i \in 1..Len(Planned(call)) : Planned(call)[i] \in call.working}

FirstHit(call) == CHOOSE i \in Hits(call) : \A j \in Hits(call) : i <= j

\* The call returns the text of the first planned attempt that succeeds, having
\* tried the planned models up to it, in order.
ReturnsFirstHit(call, result) ==
    /\ result.ok
    /\ result.text = Planned(call)[FirstHit(call)]
    /\ result.tried = SubSeq(Planned(call), 1, FirstHit(call))

\* A model of the list other than the selected one has been tried.
ListTried(call) == Len(Planned(call)) > (IF call.model # None THEN 1 ELSE 0)

\* C39 as stated: with a Gemini client, the call tries the selected model and
\* then the other models of the list in order, returns the text of the first
\* attempt that succeeds, and fails only when every attempt has failed, with the
\* error of the last failed attempt.
C39_LastAttemptError ==
    (geminiCall # None /\ geminiCall[1].call.client)
        => LET call == geminiCall[1].call
               result == geminiCall[1].result
           IN IF Hits(call) # {}
              THEN ReturnsFirstHit(call, result)
              ELSE /\ ~result.ok
                   /\ result.tried = Planned(call)
                   /\ Planned(call) # <<>>
                         => result.error = AttemptError(Last(Planned(call)))

\* C39, amended: with a Gemini client, the call tries the selected model and
\* then the other models of the list in order and returns the text of the first
\* attempt that succeeds; when every attempt has failed it raises the error of
\* the last failed attempt only if that was a model of the list, and an error
\* of its own otherwise ("no model available" for an empty list, a generic
\* error when the list held only the selected model): the error of the selected
\* model is never raised.  Without a client it fails before any attempt.
C39_GeminiFallback ==
    geminiCall # None
        => LET call == geminiCall[1].call
               result == geminiCall[1].result
           IN IF ~call.client
              THEN result = [ok |-> FALSE, text |-> "none", error |-> "notInitialized",
                             tried |-> <<>>]
              ELSE IF Hits(call) # {}
              THEN ReturnsFirstHit(call, result)
              ELSE /\ ~result.ok
                   /\ result.tried = Planned(call)
                   /\ result.error =
                         IF call.available = <<>> THEN "noModels"
                         ELSE IF ListTried(call) THEN Last(Planned(call))
                         ELSE "generic"

\* The selected model failed, the list held it and two others: it was skipped
\* there, the first of the others failed and the second answered.
C39_Witness ==
    /\ geminiCall # None
    /\ geminiCall[1].call.client
    /\ geminiCall[1].call.model # None
    /\ Len(geminiCall[1].call.available) = 3
    /\ geminiCall[1].result.ok
    /\ Len(geminiCall[1].result.tried) = 3
    /\ geminiCall[1].result.tried[1] = geminiCall[1].call.model[1]
    /\ geminiCall[1].result.text = geminiCall[1].result.tried[3]

====
